---- MODULE Spec2Model ----
(***************************************************************************)
(* Model of the four tools of src/main.py: get_location, get_weather,      *)
(* get_air_quality and summarize_environment.                              *)
(*                                                                         *)
(* The upstream HTTP services are the environment: every requests.get is   *)
(* answered by a response drawn from a bounded set (transport exception,   *)
(* HTTP status, body that is not JSON, or a JSON value of some shape).     *)
(* A tool invocation is cut at its requests.get calls: one action per code *)
(* segment that issues one request and runs up to the next request or the  *)
(* return.                                                                 *)
(*                                                                         *)
(* What the decorators of lines 15, 33, 56 and 138 leave bound to the four *)
(* names is decided by the installed fastmcp: the function itself, or a    *)
(* tool object that cannot be called.  Either build is possible, and the   *)
(* host reaches the function in both.                                      *)
(*                                                                         *)
(* Python values are tagged records: t is the Python type, v the payload.  *)
(* A Python str is Str (a literal), Text (an f-string: the concatenation   *)
(* of its pieces) or Raw (serialized text, v being what it parses to).     *)
(* Raise(e) is the outcome "exception e propagates".                       *)
(***************************************************************************)
EXTENDS Integers, Sequences, FiniteSets, TLC

\* ---- bounds of the model ------------------------------------------------
MaxStations == 2    \* longest 'results' list of the station search
MaxSeries == 2      \* longest hourly series of the modeled service

\* ---- Python / JSON values -----------------------------------------------
Null == [t |-> "null"]
BadJson == [t |-> "badjson"]
Unset == [t |-> "unset"]
Fallthrough == [t |-> "fallthrough"]
Num(n) == [t |-> "num", v |-> n]
Str(s) == [t |-> "str", v |-> s]
List(s) == [t |-> "list", v |-> s]
Obj(f) == [t |-> "obj", v |-> f]
Text(pieces) == [t |-> "text", v |-> pieces]
Raw(body) == [t |-> "raw", v |-> body]
Raise(e) == [t |-> "raise", v |-> e]
EmptyObj == Obj([k \in {} |-> Null])

IsRaise(x) == x.t = "raise"
IsStr(x) == x.t \in {"str", "text", "raw"}

\* Python truthiness ("not x", "if x")
Truthy(x) ==
  CASE x.t = "null" -> FALSE
    [] x.t = "num" -> x.v # 0
    [] x.t = "str" -> x.v # ""
    [] x.t = "text" -> TRUE
    [] x.t = "list" -> Len(x.v) # 0
    [] x.t = "obj" -> DOMAIN x.v # {}

\* x.get(k, default): only a dict has .get
DictGet(x, k, default) ==
  IF x.t = "obj"
    THEN IF k \in DOMAIN x.v THEN x.v[k] ELSE default
    ELSE Raise("AttributeError")

\* x[k], k a Str or a Num (0-based, negative counts from the end)
Index(x, k) ==
  CASE x.t = "obj" /\ k.t = "str" ->
         IF k.v \in DOMAIN x.v THEN x.v[k.v] ELSE Raise("KeyError")
    [] x.t = "obj" /\ k.t = "num" -> Raise("KeyError")
    [] x.t = "list" /\ k.t = "num" ->
         IF k.v >= 0 /\ k.v < Len(x.v) THEN x.v[k.v + 1]
         ELSE IF k.v < 0 /\ -k.v <= Len(x.v) THEN x.v[Len(x.v) + k.v + 1]
         ELSE Raise("IndexError")
    [] x.t = "list" /\ k.t = "str" -> Raise("TypeError")
    [] x.t \in {"null", "num"} -> Raise("TypeError")

\* "k not in x" for a str k: a key of a dict, an element of a list;
\* "in" on None or on a number is a TypeError
InIsTypeError(x) == x.t \in {"null", "num"}

NotIn(k, x) ==
  CASE x.t = "obj" -> k \notin DOMAIN x.v
    [] x.t = "list" -> \A i \in 1..Len(x.v) : x.v[i] # Str(k)

\* "for e in x": None and numbers are not iterable
IterIsTypeError(x) == x.t \in {"null", "num"}

\* the first exception of a list of evaluation outcomes, if any
FirstRaise(outs) ==
  LET bad == {i \in 1..Len(outs) : IsRaise(outs[i])}
  IN IF bad = {} THEN Unset
     ELSE outs[CHOOSE i \in bad : \A j \in bad : i <= j]

\* str(v) inside an f-string
Format(x) ==
  CASE x.t = "num" -> ToString(x.v)
    [] x.t = "str" -> x.v
    [] x.t = "null" -> "None"

\* json.loads(s)
JsonLoads(s) ==
  IF s.t = "raw" /\ s.v # BadJson THEN s.v ELSE Raise("JSONDecodeError")

\* ---- HTTP responses -----------------------------------------------------
NoResponse == [kind |-> "unset", exc |-> "", status |-> 0, body |-> Null]
Failed(e) == [kind |-> "exc", exc |-> e, status |-> 0, body |-> Null]
Http(s, b) == [kind |-> "http", exc |-> "", status |-> s, body |-> b]

\* response.raise_for_status() raises for 4xx and 5xx
RaisesForStatus(resp) == resp.status >= 400 /\ resp.status < 600

\* the exception, if any, of requests.get(...).json(), with or without
\* raise_for_status() in between; "" when the body is parsed
FetchError(resp, checked) ==
  IF resp.kind = "exc" THEN resp.exc
  ELSE IF checked /\ RaisesForStatus(resp) THEN "HTTPError"
  ELSE IF resp.body = BadJson THEN "JSONDecodeError"
  ELSE ""

\* Call with a slip: a request that is attempted twice
CallWithRetry(log, endpoint) == Append(Append(log, endpoint), endpoint)

\* one outbound request appended to the invocation's log
Call(log, endpoint) == Append(log, endpoint)

Error(pieces) == Obj([error |-> Text(pieces)])

\* ---- get_location ------------------------------------------------------
get_location(resp) ==
  IF resp.kind = "exc" THEN Error(<<resp.exc>>)
  ELSE IF resp.status # 200
    THEN Obj([error |-> Text(<<"HTTP ", ToString(resp.status)>>),
              text |-> Raw(resp.body)])
  ELSE IF resp.body = BadJson THEN Error(<<"JSONDecodeError">>)
  ELSE LET data == resp.body
           c == DictGet(data, "city", Str("Unknown"))
           la == DictGet(data, "latitude", Num(0))
           lo == DictGet(data, "longitude", Num(0))
       IN IF IsRaise(c) THEN Error(<<c.v>>)
          ELSE Obj([city |-> c, lat |-> la, lon |-> lo])

\* ---- get_weather -------------------------------------------------------
NA == Str("N/A")

\* WeatherField with a slip: no default for a missing field
WeatherFieldNoDefault(current, k) == DictGet(current, k, Null)

WeatherField(current, k) == DictGet(current, k, NA)

get_weather(resp) ==
  IF FetchError(resp, FALSE) # "" THEN Error(<<FetchError(resp, FALSE)>>)
  ELSE LET data == resp.body
           current == DictGet(data, "current", EmptyObj)
       IN IF IsRaise(current) THEN Error(<<current.v>>)
          ELSE IF ~Truthy(current)
            THEN Obj([error |-> Str("No weather data returned"), raw |-> data])
          ELSE IF current.t # "obj" THEN Error(<<"AttributeError">>)
          ELSE Obj([temperature |-> WeatherField(current, "temperature_2m"),
                    humidity |-> WeatherField(current, "relative_humidity_2m"),
                    wind_speed |-> WeatherField(current, "wind_speed_10m")])

\* ---- get_air_quality --------------------------------------------------
\* lines 66-68: "if not api_key"
MissingKey(key) == ~Truthy(key)

MissingKeyError ==
  Obj([error |-> Str("Missing OpenAQ API key. Please set OPENAQ_API_KEY in .env")])

Coords(la, lo) == [t |-> "coords", lat |-> la, lon |-> lo]

GeocodeFailed(c, e) == Error(<<"Geocoding failed for ", c, ": ", e>>)
CouldNotGeocode(c) == Error(<<"Could not geocode city '", c, "'">>)

\* Geocode with a slip: a body without 'results' or with zero results is
\* given the coordinates (0, 0) instead of failing
GeocodeDefaulting(c, resp) ==
  IF FetchError(resp, TRUE) # "" THEN GeocodeFailed(c, FetchError(resp, TRUE))
  ELSE LET geo_data == resp.body IN
    IF InIsTypeError(geo_data) THEN GeocodeFailed(c, "TypeError")
    ELSE IF NotIn("results", geo_data) THEN Coords(Num(0), Num(0))
    ELSE LET results == Index(geo_data, Str("results")) IN
      IF IsRaise(results) THEN GeocodeFailed(c, results.v)
      ELSE IF ~Truthy(results) THEN Coords(Num(0), Num(0))
      ELSE LET first == Index(results, Num(0)) IN
        IF IsRaise(first) THEN GeocodeFailed(c, first.v)
        ELSE LET la == Index(first, Str("latitude")) IN
          IF IsRaise(la) THEN GeocodeFailed(c, la.v)
          ELSE LET lo == Index(first, Str("longitude")) IN
            IF IsRaise(lo) THEN GeocodeFailed(c, lo.v)
            ELSE Coords(la, lo)

\* lines 71-81: an error object, or the coordinates of the first match
Geocode(c, resp) ==
  IF FetchError(resp, TRUE) # "" THEN GeocodeFailed(c, FetchError(resp, TRUE))
  ELSE LET geo_data == resp.body IN
    IF InIsTypeError(geo_data) THEN GeocodeFailed(c, "TypeError")
    ELSE IF NotIn("results", geo_data) THEN CouldNotGeocode(c)
    ELSE LET results == Index(geo_data, Str("results")) IN
      IF IsRaise(results) THEN GeocodeFailed(c, results.v)
      ELSE IF ~Truthy(results) THEN CouldNotGeocode(c)
      ELSE LET first == Index(results, Num(0)) IN
        IF IsRaise(first) THEN GeocodeFailed(c, first.v)
        ELSE LET la == Index(first, Str("latitude")) IN
          IF IsRaise(la) THEN GeocodeFailed(c, la.v)
          ELSE LET lo == Index(first, Str("longitude")) IN
            IF IsRaise(lo) THEN GeocodeFailed(c, lo.v)
            ELSE Coords(la, lo)

\* line 102: [p.get("parameter") for p in st.get("parameters", [])]
ParameterNames(st) ==
  LET params == DictGet(st, "parameters", List(<<>>)) IN
    IF IterIsTypeError(params) THEN Raise("TypeError")
    ELSE LET names == [i \in 1..Len(params.v) |->
                         DictGet(params.v[i], "parameter", Null)]
         IN IF FirstRaise(names) # Unset THEN FirstRaise(names)
            ELSE List(names)

\* lines 97-103: the record appended for one entry of the results
StationRecord(st) ==
  IF st.t # "obj" THEN Raise("AttributeError")
  ELSE IF IsRaise(ParameterNames(st)) THEN ParameterNames(st)
  ELSE Obj([name |-> DictGet(st, "name", Null),
            city |-> DictGet(st, "city", Null),
            country |-> DictGet(st, "country", Null),
            coordinates |-> DictGet(st, "coordinates", Null),
            parameters |-> ParameterNames(st)])

\* StationResult with a slip: the key the summary reads is produced
StationResultWithNearest(c, stations) ==
  Obj([requested_city |-> Str(c),
       source |-> Str("OpenAQ Station Data"),
       nearest_city |-> Str(c),
       stations_found |-> Num(Len(stations)),
       stations |-> List(stations)])

\* lines 104-109
StationResult(c, stations) ==
  Obj([requested_city |-> Str(c),
       source |-> Str("OpenAQ Station Data"),
       stations_found |-> Num(Len(stations)),
       stations |-> List(stations)])

\* Stations with a slip: a failed station request falls back to the
\* modeled data instead of returning an error
StationsFallingBack(c, resp) ==
  IF FetchError(resp, TRUE) # "" THEN Fallthrough
  ELSE LET aq_data == resp.body
           found == DictGet(aq_data, "results", Null)
       IN IF IsRaise(found) THEN found
          ELSE IF ~Truthy(found) THEN Fallthrough
          ELSE IF IterIsTypeError(found) THEN Raise("TypeError")
          ELSE LET stations == [i \in 1..Len(found.v) |->
                                  StationRecord(found.v[i])]
               IN IF FirstRaise(stations) # Unset THEN FirstRaise(stations)
                  ELSE StationResult(c, stations)

\* lines 84-109: an error object, a propagating exception, the station
\* result, or Fallthrough when line 94 finds no results
Stations(c, resp) ==
  IF FetchError(resp, TRUE) # ""
    THEN Error(<<"OpenAQ location request failed: ", FetchError(resp, TRUE)>>)
  ELSE LET aq_data == resp.body
           found == DictGet(aq_data, "results", Null)
       IN IF IsRaise(found) THEN found
          ELSE IF ~Truthy(found) THEN Fallthrough
          ELSE IF IterIsTypeError(found) THEN Raise("TypeError")
          ELSE LET stations == [i \in 1..Len(found.v) |->
                                  StationRecord(found.v[i])]
               IN IF FirstRaise(stations) # Unset THEN FirstRaise(stations)
                  ELSE StationResult(c, stations)

FallbackFailed(e) == Error(<<"Fallback (Open-Meteo) failed: ", e>>)

\* Latest with a slip: v[0], the oldest hour, instead of v[-1]
LatestFirst(hourly) ==
  Obj([k \in {j \in DOMAIN hourly.v :
                 hourly.v[j].t = "list" /\ Truthy(hourly.v[j])} |->
         Index(hourly.v[k], Num(0))])

\* line 125: {k: v[-1] for k, v in hourly.items() if isinstance(v, list) and v}
Latest(hourly) ==
  Obj([k \in {j \in DOMAIN hourly.v :
                 hourly.v[j].t = "list" /\ Truthy(hourly.v[j])} |->
         Index(hourly.v[k], Num(-1))])

\* lines 112-134
Modeled(c, la, lo, resp) ==
  IF FetchError(resp, TRUE) # "" THEN FallbackFailed(FetchError(resp, TRUE))
  ELSE LET model_data == resp.body
           hourly == DictGet(model_data, "hourly", EmptyObj)
       IN IF IsRaise(hourly) THEN FallbackFailed(hourly.v)
          ELSE IF ~Truthy(hourly)
            THEN Error(<<"No air quality data available for ", c>>)
          ELSE IF hourly.t # "obj" THEN FallbackFailed("AttributeError")
          ELSE Obj([requested_city |-> Str(c),
                    source |-> Str("Open-Meteo Modeled Data"),
                    coordinates |-> Obj([latitude |-> la, longitude |-> lo]),
                    measurements |-> Latest(hourly)])

\* ---- summarize_environment --------------------------------------------
\* lines 142-146: a location that arrived as text is decoded
DecodeLocation(l) ==
  IF IsStr(l)
    THEN IF IsRaise(JsonLoads(l))
           THEN Obj([lat |-> Num(0), lon |-> Num(0)])
           ELSE JsonLoads(l)
    ELSE l

\* lines 151-157: the f-string as the sequence of its pieces; the
\* pictographs and the degree sign of the literal pieces are left out
Summary(c, w, a) ==
  Obj([summary |-> Text(<<"City: ", c, "\n",
                          "Temp: ", Format(DictGet(w, "temperature", NA)), "C\n",
                          "Wind: ", Format(DictGet(w, "wind_speed", NA)), " km/h\n",
                          "Air Quality: ", Format(DictGet(a, "nearest_city", NA))>>)])

\* ---- inputs and upstream behaviours ------------------------------------
Tools == {"get_location", "get_weather", "get_air_quality",
          "summarize_environment"}
Cities == {"Lahore", "Xyz123"}
\* os.getenv("OPENAQ_API_KEY"): None when not set
ApiKeys == {Null, Str(""), Str("key")}
Latitudes == {Num(31)}
Longitudes == {Num(74)}

SeqsUpTo(S, n) == UNION {[1..k -> S] : k \in 0..n}

\* the dict with the keys of f that are set
Present(f) == [k \in {j \in DOMAIN f : f[j] # Unset} |-> f[k]]

LocationBodies ==
  {BadJson, Null, EmptyObj,
   Obj([city |-> Str("Lahore"), latitude |-> Num(31), longitude |-> Num(74)])}
LocationResponses ==
  {Failed("ConnectionError"), Http(404, EmptyObj)}
    \cup {Http(200, b) : b \in LocationBodies}

CurrentKeys == {"temperature_2m", "relative_humidity_2m", "wind_speed_10m"}
CurrentSections ==
  {Obj(Present(f)) : f \in [CurrentKeys -> {Unset, Null, Num(21)}]}
WeatherBodies ==
  {BadJson, List(<<>>), EmptyObj, Obj([current |-> Null]),
   Obj([current |-> Num(1)])}
    \cup {Obj([current |-> c]) : c \in CurrentSections}
WeatherResponses ==
  {Failed("Timeout"), Http(404, BadJson)}
    \cup {Http(200, b) : b \in WeatherBodies}

Place == Obj([latitude |-> Num(31), longitude |-> Num(74)])
GeoBodies ==
  {BadJson, Null, List(<<>>), EmptyObj,
   Obj([results |-> Null]), Obj([results |-> Num(1)]),
   Obj([results |-> List(<<>>)]), Obj([results |-> List(<<EmptyObj>>)]),
   Obj([results |-> List(<<Place>>)])}
GeoResponses ==
  {Failed("ConnectionError"), Http(404, Obj([results |-> List(<<Place>>)]))}
    \cup {Http(200, b) : b \in GeoBodies}

Parameter(n) == Obj([parameter |-> Str(n)])
StationEntries ==
  {Str("x"),
   Obj([name |-> Str("A"), city |-> Str("Lahore"), country |-> Str("PK"),
        coordinates |-> Place,
        parameters |-> List(<<Parameter("pm25"), Parameter("o3")>>)]),
   Obj([name |-> Str("B")]),
   Obj([name |-> Str("C"), parameters |-> List(<<>>)]),
   Obj([name |-> Str("D"), parameters |-> Null]),
   Obj([name |-> Str("E"), parameters |-> List(<<Str("pm25")>>)]),
   Obj([name |-> Str("F"), parameters |-> List(<<EmptyObj>>)])}
StationBodies ==
  {BadJson, Null, List(<<>>), EmptyObj,
   Obj([results |-> Null]), Obj([results |-> EmptyObj]),
   Obj([results |-> Num(0)]), Obj([results |-> Num(5)])}
    \cup {Obj([results |-> List(s)]) : s \in SeqsUpTo(StationEntries, MaxStations)}
StationResponses ==
  {Failed("Timeout"), Http(500, Obj([results |-> List(<<Obj([name |-> Str("B")])>>)])),
   Http(401, EmptyObj)}
    \cup {Http(200, b) : b \in StationBodies}

Pollutants == {"pm2_5", "pm10"}
SeriesValues ==
  {Unset, Null} \cup {List(s) : s \in SeqsUpTo({Num(1), Num(2)}, MaxSeries)}
ModelBodies ==
  {BadJson, Null, EmptyObj, Obj([hourly |-> Null]), Obj([hourly |-> EmptyObj]),
   Obj([hourly |-> List(<<Num(1)>>)])}
    \cup {Obj([hourly |-> Obj(Present(f))]) : f \in [Pollutants -> SeriesValues]}
ModelResponses ==
  {Failed("Timeout"),
   Http(503, Obj([hourly |-> Obj([pm10 |-> List(<<Num(1)>>)])]))}
    \cup {Http(200, b) : b \in ModelBodies}

\* what app.tool leaves bound to a decorated name
Decorations == {"function", "tool"}

\* line 141: get_location() can be called only when the name is still bound
\* to the function
Callable(d) == d = "function"

\* ---- state -------------------------------------------------------------
VARIABLES
  decorated,  \* what the names get_location, ... are bound to in this build
  tool,       \* the tool the host invoked, "" when idle
  pc,         \* the code segment to run next
  city,       \* argument of get_air_quality / summarize_environment
  api_key,    \* value of OPENAQ_API_KEY in the environment
  w_lat,      \* arguments of get_weather
  w_lon,
  calls,      \* endpoints requested so far in this invocation, in order
  response,   \* get_location: response
  w_res,      \* get_weather: the response of requests.get
  geo_res,    \* get_air_quality: geo_res, aq_res, model_res, lat, lon
  aq_res,
  model_res,
  lat,
  lon,
  loc,        \* what get_location returned
  weather,    \* what get_weather returned
  air,        \* what get_air_quality returned or raised
  result      \* what the invoked tool returned or raised

vars == <<decorated, tool, pc, city, api_key, w_lat, w_lon, calls, response, w_res,
          geo_res, aq_res, model_res, lat, lon, loc, weather, air, result>>

Init ==
  /\ decorated \in Decorations
  /\ tool = ""
  /\ pc = "idle"
  /\ city = ""
  /\ api_key = Null
  /\ w_lat = Unset
  /\ w_lon = Unset
  /\ calls = <<>>
  /\ response = NoResponse
  /\ w_res = NoResponse
  /\ geo_res = NoResponse
  /\ aq_res = NoResponse
  /\ model_res = NoResponse
  /\ lat = Unset
  /\ lon = Unset
  /\ loc = Unset
  /\ weather = Unset
  /\ air = Unset
  /\ result = Unset

\* the host invokes one tool; the environment holds some OPENAQ_API_KEY
Invoke ==
  /\ pc = "idle"
  /\ \E t \in Tools, key \in ApiKeys :
       /\ tool' = t
       /\ api_key' = key
       /\ pc' = CASE t = "get_weather" -> "get_weather"
                  [] t = "get_air_quality" -> "get_air_quality"
                  [] t = "summarize_environment" -> "summarize_environment"
                  [] OTHER -> "get_location"
       /\ IF t \in {"get_air_quality", "summarize_environment"}
            THEN city' \in Cities
            ELSE city' = ""
       /\ IF t = "get_weather"
            THEN w_lat' \in Latitudes /\ w_lon' \in Longitudes
            ELSE w_lat' = Unset /\ w_lon' = Unset
  /\ UNCHANGED <<decorated, calls, response, w_res, geo_res, aq_res, model_res,
                 lat, lon, loc, weather, air, result>>

\* line 141: summarize_environment calls the name get_location; a tool
\* object is not callable and the TypeError leaves summarize_environment
SummarizeCallsLocation ==
  /\ pc = "summarize_environment"
  /\ IF Callable(decorated)
       THEN pc' = "get_location" /\ UNCHANGED result
       ELSE pc' = "done" /\ result' = Raise("TypeError")
  /\ UNCHANGED <<decorated, tool, city, api_key, w_lat, w_lon, calls, response,
                 w_res, geo_res, aq_res, model_res, lat, lon, loc, weather, air>>

\* lines 16-29, and lines 141-148 when called by summarize_environment
GetLocation ==
  /\ pc = "get_location"
  /\ \E resp \in LocationResponses :
       /\ response' = resp
       /\ calls' = Call(calls, "ipapi")
       /\ loc' = get_location(resp)
       /\ IF tool = "get_location"
            THEN /\ result' = loc'
                 /\ pc' = "done"
                 /\ UNCHANGED <<w_lat, w_lon>>
            ELSE /\ w_lat' = DictGet(DecodeLocation(loc'), "lat", Num(0))
                 /\ w_lon' = DictGet(DecodeLocation(loc'), "lon", Num(0))
                 /\ pc' = "get_weather"
                 /\ UNCHANGED result
  /\ UNCHANGED decorated
  /\ UNCHANGED <<tool, city, api_key, w_res, geo_res, aq_res, model_res, lat,
                 lon, weather, air>>

\* lines 34-52
GetWeather ==
  /\ pc = "get_weather"
  /\ \E resp \in WeatherResponses :
       /\ w_res' = resp
       /\ calls' = Call(calls, "forecast")
       /\ weather' = get_weather(resp)
       /\ IF tool = "get_weather"
            THEN result' = weather' /\ pc' = "done"
            ELSE pc' = "get_air_quality" /\ UNCHANGED result
  /\ UNCHANGED decorated
  /\ UNCHANGED <<tool, city, api_key, w_lat, w_lon, response, geo_res, aq_res,
                 model_res, lat, lon, loc, air>>

\* get_air_quality returns or raises: to the host, or into line 149 of
\* summarize_environment, which has no handler around it
AirQualityEnds(out) ==
  /\ air' = out
  /\ IF tool = "get_air_quality" \/ IsRaise(out)
       THEN result' = out /\ pc' = "done"
       ELSE pc' = "summary" /\ UNCHANGED result

\* lines 63-81
AirQualityGeocode ==
  /\ pc = "get_air_quality"
  /\ IF MissingKey(api_key)
       THEN /\ AirQualityEnds(MissingKeyError)
            /\ UNCHANGED <<calls, geo_res, lat, lon>>
       ELSE \E resp \in GeoResponses :
              /\ geo_res' = resp
              /\ calls' = Call(calls, "geocoding")
              /\ IF Geocode(city, resp).t = "coords"
                   THEN /\ lat' = Geocode(city, resp).lat
                        /\ lon' = Geocode(city, resp).lon
                        /\ pc' = "stations"
                        /\ UNCHANGED <<air, result>>
                   ELSE /\ AirQualityEnds(Geocode(city, resp))
                        /\ UNCHANGED <<lat, lon>>
  /\ UNCHANGED decorated
  /\ UNCHANGED <<tool, city, api_key, w_lat, w_lon, response, w_res, aq_res,
                 model_res, loc, weather>>

\* lines 83-109
AirQualityStations ==
  /\ pc = "stations"
  /\ \E resp \in StationResponses :
       /\ aq_res' = resp
       /\ calls' = Call(calls, "openaq")
       /\ IF Stations(city, resp) = Fallthrough
            THEN pc' = "modeled" /\ UNCHANGED <<air, result>>
            ELSE AirQualityEnds(Stations(city, resp))
  /\ UNCHANGED decorated
  /\ UNCHANGED <<tool, city, api_key, w_lat, w_lon, response, w_res, geo_res,
                 model_res, lat, lon, loc, weather>>

\* lines 111-134
AirQualityModeled ==
  /\ pc = "modeled"
  /\ \E resp \in ModelResponses :
       /\ model_res' = resp
       /\ calls' = Call(calls, "air-quality")
       /\ AirQualityEnds(Modeled(city, lat, lon, resp))
  /\ UNCHANGED decorated
  /\ UNCHANGED <<tool, city, api_key, w_lat, w_lon, response, w_res, geo_res,
                 aq_res, lat, lon, loc, weather>>

\* lines 151-157
Summarize ==
  /\ pc = "summary"
  /\ result' = Summary(city, weather, air)
  /\ pc' = "done"
  /\ UNCHANGED decorated
  /\ UNCHANGED <<tool, city, api_key, w_lat, w_lon, calls, response, w_res,
                 geo_res, aq_res, model_res, lat, lon, loc, weather, air>>

\* the invocation is over; nothing is kept for the next one
Finish ==
  /\ pc = "done"
  /\ UNCHANGED decorated
  /\ tool' = ""
  /\ pc' = "idle"
  /\ city' = ""
  /\ api_key' = Null
  /\ w_lat' = Unset
  /\ w_lon' = Unset
  /\ calls' = <<>>
  /\ response' = NoResponse
  /\ w_res' = NoResponse
  /\ geo_res' = NoResponse
  /\ aq_res' = NoResponse
  /\ model_res' = NoResponse
  /\ lat' = Unset
  /\ lon' = Unset
  /\ loc' = Unset
  /\ weather' = Unset
  /\ air' = Unset
  /\ result' = Unset

Next ==
  \/ Invoke
  \/ SummarizeCallsLocation
  \/ GetLocation
  \/ GetWeather
  \/ AirQualityGeocode
  \/ AirQualityStations
  \/ AirQualityModeled
  \/ Summarize
  \/ Finish

Spec == Init /\ [][Next]_vars

\* ---- vocabulary of the properties --------------------------------------
HasKey(x, k) == x.t = "obj" /\ k \in DOMAIN x.v
IsErrorObject(x) == HasKey(x, "error") /\ IsStr(x.v["error"])
Mentions(x, s) == x.t = "text" /\ \E i \in 1..Len(x.v) : x.v[i] = s
Occurs(e, log) == \E i \in 1..Len(log) : log[i] = e
IsPrefix(s, u) == Len(s) <= Len(u) /\ \A i \in 1..Len(s) : s[i] = u[i]
Answered(resp) == resp.kind # "unset"
\* the request was answered without an error status by a JSON object
GaveObject(resp) ==
  resp.kind = "http" /\ resp.status < 400 /\ resp.body.t = "obj"
RequestFailed(resp) ==
  resp.kind = "exc" \/ (resp.kind = "http" /\ resp.status >= 400)
NonEmptyList(x) == x.t = "list" /\ Len(x.v) > 0
AirQualityEnded == air # Unset
Returned == pc = "done"

\* ---- C1 ----------------------------------------------------------------
\* C1: get_air_quality never lets an exception propagate: whatever the
\* upstream services do, it returns an object, and when it does not return
\* station or modeled data that object carries an 'error' string.
C1_NoExceptionEscapes ==
  AirQualityEnded =>
    /\ ~IsRaise(air)
    /\ air.t = "obj"
    /\ (~HasKey(air, "source") => IsErrorObject(air))

\* ---- C2 ----------------------------------------------------------------
\* C2: summarize_environment never raises: every invocation ends by
\* returning an object whose only key is 'summary', and the summary holds
\* the requested city and the 'Temp:' and 'Wind:' markers.
C2_SummaryAlwaysReturned ==
  (tool = "summarize_environment" /\ Returned) =>
    /\ result.t = "obj"
    /\ DOMAIN result.v = {"summary"}
    /\ Mentions(result.v["summary"], city)
    /\ Mentions(result.v["summary"], "Temp: ")
    /\ Mentions(result.v["summary"], "Wind: ")

\* ---- C3 ----------------------------------------------------------------
\* the four ways geocoding fails: the request raises, an HTTP error status,
\* a body without 'results', a body with zero results
GeocodingFails(resp) ==
  \/ RequestFailed(resp)
  \/ /\ GaveObject(resp)
     /\ \/ "results" \notin DOMAIN resp.body.v
        \/ resp.body.v["results"] = List(<<>>)

\* C3: when the city fails geocoding, get_air_quality returns an error
\* object whose message mentions the city, and neither the station search
\* nor the modeled endpoint is called in that invocation.
C3_GeocodingFailureStops ==
  (Answered(geo_res) /\ GeocodingFails(geo_res)) =>
    /\ IsErrorObject(air)
    /\ Mentions(air.v["error"], city)
    /\ ~Occurs("openaq", calls)
    /\ ~Occurs("air-quality", calls)

C3_Witness ==
  /\ tool = "get_air_quality" /\ Returned
  /\ GaveObject(geo_res) /\ HasKey(geo_res.body, "results")
  /\ geo_res.body.v["results"] = List(<<>>)
  /\ IsErrorObject(air)
  /\ calls = <<"geocoding">>

\* ---- C4 ----------------------------------------------------------------
\* a station of the search: an object whose 'parameters', if it has any, is
\* null or a list of parameter objects
IsStation(e) ==
  /\ e.t = "obj"
  /\ \/ "parameters" \notin DOMAIN e.v
     \/ e.v["parameters"] = Null
     \/ /\ e.v["parameters"].t = "list"
        /\ \A i \in 1..Len(e.v["parameters"].v) :
             e.v["parameters"].v[i].t = "obj"

StationsFound(resp) ==
  /\ GaveObject(resp)
  /\ HasKey(resp.body, "results")
  /\ NonEmptyList(resp.body.v["results"])
  /\ \A i \in 1..Len(resp.body.v["results"].v) :
       IsStation(resp.body.v["results"].v[i])

\* C4: when the station search succeeds with one or more stations, the
\* result has source "OpenAQ Station Data", one record per station in the
\* same order, and stations_found equal to the length of 'stations',
\* whatever parameters the stations have, if any.
C4_StationBranch ==
  (Answered(aq_res) /\ StationsFound(aq_res)) =>
    LET found == aq_res.body.v["results"].v IN
      /\ HasKey(air, "source") /\ air.v["source"] = Str("OpenAQ Station Data")
      /\ HasKey(air, "stations") /\ air.v["stations"].t = "list"
      /\ Len(air.v["stations"].v) = Len(found)
      /\ air.v["stations_found"] = Num(Len(air.v["stations"].v))
      /\ \A i \in 1..Len(found) :
           air.v["stations"].v[i].v["name"] = found[i].v["name"]

\* ---- C5 ----------------------------------------------------------------
\* the station search succeeded and found no station
NoStationFound(resp) ==
  /\ GaveObject(resp)
  /\ \/ "results" \notin DOMAIN resp.body.v
     \/ resp.body.v["results"] \in {Null, List(<<>>), EmptyObj, Num(0)}

HourlyOf(resp) == resp.body.v["hourly"]
HasHourly(resp) ==
  /\ GaveObject(resp)
  /\ HasKey(resp.body, "hourly")
  /\ HourlyOf(resp).t = "obj"
  /\ DOMAIN HourlyOf(resp).v # {}
NoHourly(resp) ==
  /\ GaveObject(resp)
  /\ \/ "hourly" \notin DOMAIN resp.body.v
     \/ HourlyOf(resp) = EmptyObj

\* C5: with zero stations and a non-empty 'hourly' section, the result has
\* source "Open-Meteo Modeled Data", the geocoded coordinates, and
\* 'measurements' maps exactly the hourly keys whose series is a non-empty
\* list to the last element of the series; an empty or absent 'hourly'
\* yields the not-available error.
C5_ModeledFallback ==
  (Answered(model_res) /\ NoStationFound(aq_res)) =>
    /\ HasHourly(model_res) =>
         LET h == HourlyOf(model_res).v
             place == geo_res.body.v["results"].v[1].v
         IN /\ HasKey(air, "source")
            /\ air.v["source"] = Str("Open-Meteo Modeled Data")
            /\ air.v["coordinates"] =
                 Obj([latitude |-> place["latitude"],
                      longitude |-> place["longitude"]])
            /\ air.v["measurements"].t = "obj"
            /\ DOMAIN air.v["measurements"].v =
                 {k \in DOMAIN h : NonEmptyList(h[k])}
            /\ \A k \in DOMAIN air.v["measurements"].v :
                 air.v["measurements"].v[k] = h[k].v[Len(h[k].v)]
    /\ NoHourly(model_res) =>
         /\ IsErrorObject(air)
         /\ Mentions(air.v["error"], "No air quality data available for ")
         /\ Mentions(air.v["error"], city)

C5_Witness ==
  /\ Returned /\ tool = "get_air_quality"
  /\ NoStationFound(aq_res) /\ HasHourly(model_res)
  /\ HourlyOf(model_res).v = [pm2_5 |-> List(<<Num(1), Num(2)>>), pm10 |-> Null]
  /\ air.v["measurements"] = Obj([pm2_5 |-> Num(2)])

\* ---- C6 ----------------------------------------------------------------
ReadingKeys == {"temperature", "humidity", "wind_speed"}
UpstreamField(k) ==
  CASE k = "temperature" -> "temperature_2m"
    [] k = "humidity" -> "relative_humidity_2m"
    [] k = "wind_speed" -> "wind_speed_10m"

\* C6 as stated: for every upstream response get_weather returns a result
\* with the keys temperature, humidity and wind_speed all present, each
\* value numeric or the literal "N/A".
C6_AlwaysAReading ==
  (weather # Unset) =>
    /\ weather.t = "obj"
    /\ ReadingKeys \subseteq DOMAIN weather.v
    /\ \A k \in ReadingKeys : weather.v[k].t = "num" \/ weather.v[k] = Str("N/A")

\* the body carries a non-empty 'current' object
HasCurrent(resp) ==
  /\ resp.kind = "http"
  /\ HasKey(resp.body, "current")
  /\ resp.body.v["current"].t = "obj"
  /\ DOMAIN resp.body.v["current"].v # {}

\* C6 amended: when the body carries a non-empty 'current' object the
\* result has exactly the three keys, each holding the upstream value of
\* its field, or "N/A" when the field is absent (so numeric or "N/A"
\* whenever the upstream field is numeric or absent); for any other
\* upstream behaviour the result is an error object without these keys.
C6_ReadingOrError ==
  (weather # Unset) =>
    IF HasCurrent(w_res)
      THEN LET current == w_res.body.v["current"].v IN
             /\ weather.t = "obj"
             /\ DOMAIN weather.v = ReadingKeys
             /\ \A k \in ReadingKeys :
                  weather.v[k] = IF UpstreamField(k) \in DOMAIN current
                                   THEN current[UpstreamField(k)]
                                   ELSE Str("N/A")
      ELSE /\ HasKey(weather, "error")
           /\ DOMAIN weather.v \cap ReadingKeys = {}

C6_Witness ==
  /\ tool = "get_weather" /\ Returned
  /\ HasCurrent(w_res)
  /\ result = Obj([temperature |-> Num(21), humidity |-> Str("N/A"),
                    wind_speed |-> Str("N/A")])

\* ---- C7 ----------------------------------------------------------------
\* C7 as stated: every tool invocation performs between 0 and 3 outbound
\* HTTP calls, summarize_environment's chain included.
C7_AtMostThreeCalls == Len(calls) <= 3

AirQualityChain == <<"geocoding", "openaq", "air-quality">>
CallChain(t) ==
  CASE t = "get_location" -> <<"ipapi">>
    [] t = "get_weather" -> <<"forecast">>
    [] t = "get_air_quality" -> AirQualityChain
    [] t = "summarize_environment" -> <<"ipapi", "forecast">> \o AirQualityChain
    [] OTHER -> <<>>

\* C7 amended: get_location and get_weather perform one call,
\* get_air_quality between 0 and 3, and summarize_environment up to 5
\* (get_location, get_weather, then the 0 to 3 of get_air_quality; at least
\* these first 2 unless its call of get_location at line 141 cannot be
\* made), one after the other in that fixed order.
C7_CallsPerTool ==
  /\ IsPrefix(calls, CallChain(tool))
  /\ Returned =>
       Len(calls) >= (CASE tool = "get_air_quality" -> 0
                        [] tool = "summarize_environment" ->
                             IF decorated = "function" THEN 2 ELSE 0
                        [] OTHER -> 1)

C7_Witness ==
  /\ tool = "summarize_environment" /\ Returned
  /\ Len(calls) = 5
  /\ HasKey(result, "summary")

\* ---- C8 ----------------------------------------------------------------
KeyAbsent == api_key = Null \/ api_key = Str("")

\* C8: without an OPENAQ_API_KEY get_air_quality fails at once with the
\* missing-configuration error, before any geocoding, station or modeled
\* call and without a retry; get_location and get_weather still answer,
\* and summarize_environment still returns a summary.
C8_MissingKeyFailsFast ==
  (tool # "" /\ KeyAbsent) =>
    /\ \A i \in 1..Len(calls) : calls[i] \in {"ipapi", "forecast"}
    /\ AirQualityEnded =>
         /\ IsErrorObject(air)
         /\ air.v["error"] =
              Str("Missing OpenAQ API key. Please set OPENAQ_API_KEY in .env")
         /\ pc \in {"summary", "done"}
    /\ (Returned /\ tool = "summarize_environment") => HasKey(result, "summary")
    /\ (Returned /\ tool = "get_location" /\ GaveObject(response)
          /\ response.status = 200) => HasKey(result, "city")
    /\ (Returned /\ tool = "get_weather" /\ HasCurrent(w_res)) =>
         HasKey(result, "temperature")

\* ---- C9 ----------------------------------------------------------------
\* C9: no return path of get_air_quality produces the key 'nearest_city',
\* so the air-quality field of every summary renders as "N/A".
C9_AirQualityFieldIsNA ==
  /\ air.t = "obj" => "nearest_city" \notin DOMAIN air.v
  /\ (tool = "summarize_environment" /\ Returned /\ HasKey(result, "summary")) =>
       LET text == result.v["summary"].v IN
         /\ text[Len(text) - 1] = "Air Quality: "
         /\ text[Len(text)] = "N/A"

C9_Witness ==
  /\ tool = "summarize_environment" /\ Returned
  /\ HasKey(air, "source") /\ air.v["source"] = Str("OpenAQ Station Data")
  /\ HasKey(result, "summary")

\* ---- C10 ---------------------------------------------------------------
\* geocoding gave the coordinates of a first match
GeocodingSucceeded(resp) ==
  /\ GaveObject(resp)
  /\ HasKey(resp.body, "results")
  /\ NonEmptyList(resp.body.v["results"])
  /\ HasKey(resp.body.v["results"].v[1], "latitude")
  /\ HasKey(resp.body.v["results"].v[1], "longitude")

AirQualityCalls == SelectSeq(calls, LAMBDA e : e \notin {"ipapi", "forecast"})

\* C10: within one get_air_quality invocation the calls follow the order
\* geocode, station search, modeled data, each at most once; the modeled
\* endpoint is called exactly when geocoding succeeded and the station
\* search succeeded with zero results; a failed station search yields an
\* error object and no fallback, and any station prevents the modeled call.
C10_CallOrderAndFallback ==
  /\ IsPrefix(AirQualityCalls, AirQualityChain)
  /\ AirQualityEnded =>
       (Occurs("air-quality", calls) <=>
          (GeocodingSucceeded(geo_res) /\ NoStationFound(aq_res)))
  /\ (Answered(aq_res) /\ RequestFailed(aq_res)) =>
       /\ IsErrorObject(air)
       /\ ~Occurs("air-quality", calls)
  /\ (GaveObject(aq_res) /\ HasKey(aq_res.body, "results")
        /\ NonEmptyList(aq_res.body.v["results"])) =>
       ~Occurs("air-quality", calls)

C10_Witness ==
  /\ tool = "get_air_quality" /\ Returned
  /\ calls = AirQualityChain
  /\ GeocodingSucceeded(geo_res) /\ NoStationFound(aq_res)
  /\ Answered(model_res)

====
